---- MODULE Spec2Model ----
(***************************************************************************)
(* A model of inferactively/distributions/dirichlet.py: the Dirichlet      *)
(* parameter container, its two representations (one dense ndarray, or an  *)
(* object array of independently shaped ndarrays, IS_AOA), and its public  *)
(* operations.                                                             *)
(*                                                                         *)
(* Numbers.  A stored number is an exact real of the form                  *)
(*     c0 + c1*e + c2*e^2 + ...        (e = exp(-16), the remove_zeros     *)
(* floor), written as the sequence of its integer coefficients with no     *)
(* trailing zero (<<>> is 0, <<2>> is 2, <<0,1>> is e, <<1,1>> is 1+e).     *)
(* e is transcendental, so such a number is 0 only when every coefficient  *)
(* is 0, and for the small coefficients used here its sign is the sign of  *)
(* its first non-zero coefficient.  A computed number (the result of a     *)
(* division, a reciprocal, a logarithm) is a quotient of two such          *)
(* polynomials, a logarithm of one, or one of IEEE's nan / inf / -inf.     *)
(* Floating-point rounding is not modelled.                                *)
(*                                                                         *)
(* Arrays.  An ndarray is a record [k, dtype, shape, data] with its data   *)
(* flat in row-major order; a Python float is a record [k, v].  Arrays     *)
(* that several names can reach live in the heap and are named by their    *)
(* address.                                                                *)
(***************************************************************************)
EXTENDS Integers, Sequences, FiniteSets, TLC

\* Largest number of times remove_zeros is let run on the same array.
MaxEps == 1
\* Largest number of indexed assignments in one run.
MaxSets == 1
\* Largest size of one axis in the dims the constructor is given.
MaxDim == 2
\* Largest entry of the arrays normalize, log and wnorm are checked on
\* (the smallest is -1).
MaxVal == 1

(***************************************************************************)
(* Exact arithmetic on polynomials in e                                    *)
(***************************************************************************)
RECURSIVE PTrim(_)
PTrim(p) ==
    IF p = <<>> THEN <<>>
    ELSE IF p[Len(p)] = 0 THEN PTrim(SubSeq(p, 1, Len(p) - 1)) ELSE p

PCoef(p, i) == IF i <= Len(p) THEN p[i] ELSE 0

PMax(m, n) == IF m >= n THEN m ELSE n

PAdd(p, q) == PTrim([i \in 1..PMax(Len(p), Len(q)) |-> PCoef(p, i) + PCoef(q, i)])

PNeg(p) == [i \in 1..Len(p) |-> 0 - p[i]]

PSub(p, q) == PAdd(p, PNeg(q))

RECURSIVE PSumTo(_, _, _, _)
\* sum over i in 1..n of p[i] * q[k + 1 - i]   (coefficient k of the product)
PSumTo(p, q, k, n) ==
    IF n = 0 THEN 0
    ELSE PSumTo(p, q, k, n - 1)
         + (IF k + 1 - n >= 1 THEN PCoef(p, n) * PCoef(q, k + 1 - n) ELSE 0)

PMul(p, q) ==
    IF p = <<>> \/ q = <<>> THEN <<>>
    ELSE PTrim([k \in 1..(Len(p) + Len(q) - 1) |-> PSumTo(p, q, k, k)])

PInt(n) == IF n = 0 THEN <<>> ELSE <<n>>

RECURSIVE PSign(_)
PSign(p) ==
    IF p = <<>> THEN 0
    ELSE IF p[1] > 0 THEN 1
    ELSE IF p[1] < 0 THEN 0 - 1
    ELSE PSign(Tail(p))

PIsZero(p) == p = <<>>

\* np.exp(-16), the floor remove_zeros adds
Eps == <<0, 1>>

RECURSIVE PSumSeq(_)
PSumSeq(s) == IF s = <<>> THEN <<>> ELSE PAdd(Head(s), PSumSeq(Tail(s)))

(***************************************************************************)
(* Computed numbers                                                        *)
(***************************************************************************)
NaN  == [t |-> "nan"]
Inf  == [t |-> "inf"]
NInf == [t |-> "ninf"]
Quot(n, d) == [t |-> "q", n |-> n, d |-> d]
Exact(p) == Quot(p, <<1>>)

IsFinite(x) == x.t \in {"q", "log"}

\* equality of two computed numbers as reals (quotients by cross-multiplication)
NumEq(x, y) ==
    IF x.t = "q" /\ y.t = "q" THEN PMul(x.n, y.d) = PMul(y.n, x.d)
    ELSE x = y

\* np.divide(x, s) on two stored numbers, IEEE: 0/0 is nan, x/0 is +-inf
Divide(x, s) ==
    IF PIsZero(s)
    THEN IF PIsZero(x) THEN NaN ELSE IF PSign(x) > 0 THEN Inf ELSE NInf
    ELSE Quot(x, s)

\* x - y on two computed numbers (finite quotients, or +-inf, or nan)
NumSub(x, y) ==
    IF x.t = "nan" \/ y.t = "nan" THEN NaN
    ELSE IF x.t = "q" /\ y.t = "q"
         THEN Quot(PSub(PMul(x.n, y.d), PMul(y.n, x.d)), PMul(x.d, y.d))
    ELSE IF x.t = "q" THEN (IF y.t = "inf" THEN NInf ELSE Inf)
    ELSE IF y.t = "q" THEN x
    ELSE IF x.t = y.t THEN NaN
    ELSE x

NumAdd(x, y) ==
    IF x.t = "nan" \/ y.t = "nan" THEN NaN
    ELSE IF x.t = "q" /\ y.t = "q"
         THEN Quot(PAdd(PMul(x.n, y.d), PMul(y.n, x.d)), PMul(x.d, y.d))
    ELSE IF x.t = "q" THEN y
    ELSE IF y.t = "q" THEN x
    ELSE IF x.t = y.t THEN x
    ELSE NaN

\* np.log(x) on a stored number: log(0) is -inf, log of a negative is nan
NpLog(x) ==
    IF PIsZero(x) THEN NInf
    ELSE IF PSign(x) < 0 THEN NaN
    ELSE [t |-> "log", x |-> x]

(***************************************************************************)
(* Python values and ndarrays                                              *)
(***************************************************************************)
None == [k |-> "None"]
Unset == [k |-> "unset"]
PyInt(n) == [k |-> "int", n |-> n]
PyFloat(v) == [k |-> "float", v |-> v]
PyList(els) == [k |-> "list", els |-> els]
PyTuple(els) == [k |-> "tuple", els |-> els]
NdArray(dtype, shape, data) ==
    [k |-> "ndarray", dtype |-> dtype, shape |-> shape, data |-> data]
\* a one-dimensional array of dtype object holding the given elements
ObjArray(els) == NdArray("object", <<Len(els)>>, els)

IsNdArray(x) == x.k = "ndarray"
IsNumArray(x) == x.k = "ndarray" /\ x.dtype # "object"
Ndim(arr) == Len(arr.shape)

RECURSIVE Prod(_)
Prod(shape) == IF shape = <<>> THEN 1 ELSE Head(shape) * Prod(Tail(shape))

\* np.zeros(shape)
NpZeros(shape) == NdArray("float64", shape, [i \in 1..Prod(shape) |-> <<>>])

\* np.expand_dims(arr, axis=1) and arr[:, np.newaxis] on a rank-1 array
ExpandDims(arr) == [arr EXCEPT !.shape = <<arr.shape[1], 1>>]

\* arr.astype("float64"): a new array; an integer is the same number as a float
AsFloat64(arr) == [arr EXCEPT !.dtype = "float64"]

\* axis 0 of an array: its number of rows, and the number of columns (the
\* positions that remain when axis 0 is summed away)
NumRows(arr) == arr.shape[1]
NumCols(arr) == Prod(Tail(arr.shape))
\* entry i (1-based) of column j (1-based) in the flat row-major data
At(arr, i, j) == arr.data[(i - 1) * NumCols(arr) + j]
Column(arr, j) == [i \in 1..NumRows(arr) |-> At(arr, i, j)]

(***************************************************************************)
(* Construction: __init__, construct_values, construct_dims.  self is the  *)
(* object under construction, [IS_AOA, values]; a result is [err, self]    *)
(* (and, for construct_values, the caller's array as the call leaves it).  *)
(***************************************************************************)
NoErr == "none"

\* the element construct_values stores for element el (lines 61-63)
PromoteElement(el) == AsFloat64(IF Ndim(el) = 1 THEN ExpandDims(el) ELSE el)

RECURSIVE FirstBad(_, _)
\* index of the first element that has no .ndim (is not an ndarray), or 0
FirstBad(els, i) ==
    IF i > Len(els) THEN 0
    ELSE IF ~IsNdArray(els[i]) THEN i
    ELSE FirstBad(els, i + 1)

construct_values(self, values) ==
    IF ~IsNdArray(values)
    THEN [err |-> "ValueError", self |-> self, values |-> values]
    ELSE IF values.dtype = "object"
    THEN LET bad == FirstBad(values.data, 1)
             n == Len(values.data)
             done == IF bad = 0 THEN n ELSE bad - 1
         IN [err |-> IF bad = 0 THEN NoErr ELSE "AttributeError",
             self |-> [IS_AOA |-> TRUE,
                       values |-> ObjArray([i \in 1..n |->
                           IF i <= done THEN PromoteElement(values.data[i])
                           ELSE None])],
             values |-> [values EXCEPT !.data = [i \in 1..n |->
                           IF i <= done /\ Ndim(values.data[i]) = 1
                           THEN ExpandDims(values.data[i])
                           ELSE values.data[i]]]]
    ELSE [err |-> NoErr,
          self |-> [self EXCEPT !.values =
                       AsFloat64(IF Ndim(values) = 1 THEN ExpandDims(values)
                                 ELSE values)],
          values |-> values]

\* ListShape without the rule that a single dimension d means (d, 1)
ListShapeAsGiven(lst) == [i \in 1..Len(lst.els) |-> lst.els[i].n]

\* the shape np.zeros is given for a flat list of ints (lines 90-93, 95-98)
ListShape(lst) ==
    IF Len(lst.els) = 1 THEN <<lst.els[1].n, 1>>
    ELSE [i \in 1..Len(lst.els) |-> lst.els[i].n]

construct_dims(self, dims) ==
    IF dims.k = "list"
    THEN LET anyList == \E i \in 1..Len(dims.els) : dims.els[i].k = "list"
             allList == \A i \in 1..Len(dims.els) : dims.els[i].k = "list"
         IN IF anyList /\ ~allList
            THEN [err |-> "ValueError", self |-> self]
            ELSE IF anyList
            THEN [err |-> NoErr,
                  self |-> [IS_AOA |-> TRUE,
                            values |-> ObjArray([i \in 1..Len(dims.els) |->
                                          NpZeros(ListShape(dims.els[i]))])]]
            ELSE [err |-> NoErr,
                  self |-> [self EXCEPT !.values = NpZeros(ListShape(dims))]]
    ELSE IF dims.k = "int"
    THEN [err |-> NoErr, self |-> [self EXCEPT !.values = NpZeros(<<dims.n, 1>>)]]
    ELSE [err |-> "ValueError", self |-> self]

\* __init__ with the both-given check made after the values are stored
DirichletInitChecksLate(dims, values) ==
    LET self0 == [IS_AOA |-> FALSE, values |-> Unset]
        self1 == IF values = None /\ dims = None
                 THEN [self0 EXCEPT !.values = NpZeros(<<1, 1>>)]
                 ELSE self0
        r2 == IF values # None
              THEN LET c == construct_values(self1, values)
                   IN [err |-> c.err, self |-> c.self]
              ELSE [err |-> NoErr, self |-> self1]
    IN IF values # None /\ dims # None
       THEN [err |-> "ValueError", self |-> r2.self]
       ELSE IF r2.err = NoErr /\ dims # None
       THEN construct_dims(r2.self, dims)
       ELSE r2

\* Dirichlet.__init__(dims, values)
DirichletInit(dims, values) ==
    LET self0 == [IS_AOA |-> FALSE, values |-> Unset]
    IN IF values # None /\ dims # None
       THEN [err |-> "ValueError", self |-> self0]
       ELSE LET self1 == IF values = None /\ dims = None
                         THEN [self0 EXCEPT !.values = NpZeros(<<1, 1>>)]
                         ELSE self0
                r2 == IF values # None
                      THEN LET c == construct_values(self1, values)
                           IN [err |-> c.err, self |-> c.self]
                      ELSE [err |-> NoErr, self |-> self1]
            IN IF r2.err = NoErr /\ dims # None
               THEN construct_dims(r2.self, dims)
               ELSE r2

(***************************************************************************)
(* The methods, as functions of the receiver's contents.  A receiver's     *)
(* contents is [IS_AOA, values]: values is the dense ndarray, or the       *)
(* object array whose elements are the slots' ndarrays (or whatever else   *)
(* an indexed assignment put in a slot).  A result is [err, ret].          *)
(***************************************************************************)
\* an error raised inside numpy whose class depends on the numpy version
Raised == "raised"

\* np.sum(arr, axis=0)[j]
ColumnSum(arr, j) == PSumSeq(Column(arr, j))

\* lines 115-117 / 121-123 on one numeric array
NormalizeArray(arr) ==
    LET c == NumCols(arr)
        divided == [p \in 1..Len(arr.data) |->
                      Divide(arr.data[p], ColumnSum(arr, ((p - 1) % c) + 1))]
        uniform == Divide(<<1>>, PInt(NumRows(arr)))
    IN NdArray("float64", arr.shape,
               [p \in 1..Len(arr.data) |->
                  IF divided[p] = NaN THEN uniform ELSE divided[p]])

\* Dirichlet.normalize
normalize(self) ==
    IF self.IS_AOA
    THEN IF \E i \in 1..Len(self.values.data) : ~IsNdArray(self.values.data[i])
         THEN [err |-> Raised, ret |-> None]
         ELSE [err |-> NoErr,
               ret |-> ObjArray([i \in 1..Len(self.values.data) |->
                                   NormalizeArray(self.values.data[i])])]
    ELSE [err |-> NoErr, ret |-> NormalizeArray(self.values)]

\* (arr == 0.0).any()
AnyZero(arr) == \E p \in 1..Len(arr.data) : PIsZero(arr.data[p])

RECURSIVE ContainsZerosFrom(_, _)
\* the loop of lines 178-181 from slot i on; a Python float compared with
\* 0.0 is a bool, which has no .any()
ContainsZerosFrom(els, i) ==
    IF i > Len(els) THEN [err |-> NoErr, ret |-> FALSE]
    ELSE IF ~IsNdArray(els[i]) THEN [err |-> "AttributeError", ret |-> FALSE]
    ELSE IF AnyZero(els[i]) THEN [err |-> NoErr, ret |-> TRUE]
    ELSE ContainsZerosFrom(els, i + 1)

\* contains_zeros that never finds a zero
contains_zerosNever(self) == [err |-> NoErr, ret |-> FALSE]

\* Dirichlet.contains_zeros
contains_zeros(self) ==
    IF ~self.IS_AOA
    THEN [err |-> NoErr, ret |-> AnyZero(self.values)]
    ELSE ContainsZerosFrom(self.values.data, 1)

\* x + np.exp(-16) for one slot or one array: a float array (or a float)
AddEps(x) ==
    IF IsNdArray(x)
    THEN NdArray("float64", x.shape, [p \in 1..Len(x.data) |-> PAdd(x.data[p], Eps)])
    ELSE PyFloat(PAdd(x.v, Eps))

\* the contents remove_zeros leaves: self.values += np.exp(-16)
RemoveZerosContents(self) ==
    IF self.IS_AOA
    THEN [self EXCEPT !.values.data =
             [i \in 1..Len(self.values.data) |-> AddEps(self.values.data[i])]]
    ELSE [self EXCEPT !.values = AddEps(self.values)]

\* np.log(np.copy(x)); of a Python float it is a numpy scalar, which has
\* ndim 0 and astype like an array of shape ()
LogArray(x) ==
    IF IsNdArray(x)
    THEN NdArray("float64", x.shape, [p \in 1..Len(x.data) |-> NpLog(x.data[p])])
    ELSE NdArray("float64", <<>>, <<NpLog(x.v)>>)

\* Dirichlet(values=v) on a freshly computed v, as the methods end
Wrap(v) == LET c == construct_values([IS_AOA |-> FALSE, values |-> Unset], v)
           IN [err |-> c.err, ret |-> IF c.err = NoErr THEN c.self ELSE None]

\* lines 207-219 on the (repaired) contents
LogValues(self, return_numpy) ==
    LET log_values ==
            IF ~self.IS_AOA THEN LogArray(self.values)
            ELSE ObjArray([i \in 1..Len(self.values.data) |->
                             LogArray(self.values.data[i])])
    IN IF return_numpy THEN [err |-> NoErr, ret |-> log_values]
       ELSE Wrap(log_values)

\* Dirichlet.log: [err, ret, warned, self], self being the receiver's
\* contents when the call ends
log(self, return_numpy) ==
    LET cz == contains_zeros(self)
    IN IF cz.err # NoErr
       THEN [err |-> cz.err, ret |-> None, warned |-> FALSE, self |-> self]
       ELSE LET after == IF cz.ret THEN RemoveZerosContents(self) ELSE self
                res == LogValues(after, return_numpy)
            IN [err |-> res.err, ret |-> res.ret, warned |-> cz.ret, self |-> after]

\* wnorm on the stored numbers themselves, with no e added
WnormArrayNoFloor(arr) ==
    LET A == PromoteElement(arr)
        c == NumCols(A)
    IN NdArray("float64", A.shape,
               [p \in 1..Len(A.data) |->
                  NumSub(Divide(<<1>>, ColumnSum(A, ((p - 1) % c) + 1)),
                         Divide(<<1>>, A.data[p]))])

\* lines 144-149 / 155-160 on one array: A is a float copy (rank promoted),
\* e is added to it, and wA = 1/colsum(A) - 1/A
WnormArray(arr) ==
    LET A == AddEps(PromoteElement(arr))
        c == NumCols(A)
    IN NdArray("float64", A.shape,
               [p \in 1..Len(A.data) |->
                  NumSub(Divide(<<1>>, ColumnSum(A, ((p - 1) % c) + 1)),
                         Divide(<<1>>, A.data[p]))])

\* Dirichlet.wnorm
wnorm(self, return_numpy) ==
    IF self.IS_AOA
    THEN IF \E i \in 1..Len(self.values.data) : ~IsNdArray(self.values.data[i])
         THEN [err |-> "AttributeError", ret |-> None]
         ELSE LET wA == ObjArray([i \in 1..Len(self.values.data) |->
                                    WnormArray(self.values.data[i])])
              IN IF return_numpy THEN [err |-> NoErr, ret |-> wA] ELSE Wrap(wA)
    ELSE LET wA == WnormArray(self.values)
         IN IF return_numpy THEN [err |-> NoErr, ret |-> wA] ELSE Wrap(wA)

\* Dirichlet.copy
copy(self) == Wrap(self.values)

\* arr[i] for an int i (0-based): the i-th sub-array along axis 0
Row(arr, i) ==
    NdArray(arr.dtype, Tail(arr.shape),
            [j \in 1..NumCols(arr) |-> At(arr, i + 1, j)])

\* Dirichlet.__getitem__ with an int key
getitem(self, key) ==
    LET values == IF self.IS_AOA THEN self.values.data[key + 1]
                  ELSE Row(self.values, key)
    IN IF IsNdArray(values)
       THEN Wrap(IF Ndim(values) = 1 THEN ExpandDims(values) ELSE values)
       ELSE [err |-> NoErr, ret |-> values]

\* one numpy operator on two stored numbers
BinOp(opn, x, y) ==
    IF opn = "add" THEN PAdd(x, y)
    ELSE IF opn = "sub" THEN PSub(x, y)
    ELSE PMul(x, y)

ResultDtype(x, y) ==
    IF IsNdArray(x) /\ IsNdArray(y) /\ x.dtype = "int64" /\ y.dtype = "int64"
    THEN "int64" ELSE "float64"

\* x OP y for two operands that are arrays of one shape or Python floats
ElemOp(opn, x, y) ==
    IF IsNdArray(x) /\ IsNdArray(y)
    THEN NdArray(ResultDtype(x, y), x.shape,
                 [p \in 1..Len(x.data) |-> BinOp(opn, x.data[p], y.data[p])])
    ELSE IF IsNdArray(x)
    THEN NdArray("float64", x.shape,
                 [p \in 1..Len(x.data) |-> BinOp(opn, x.data[p], y.v)])
    ELSE IF IsNdArray(y)
    THEN NdArray("float64", y.shape,
                 [p \in 1..Len(y.data) |-> BinOp(opn, x.v, y.data[p])])
    ELSE PyFloat(BinOp(opn, x.v, y.v))

\* self.values OP other, other being another store's values or a scalar
ValuesOp(opn, values, other) ==
    IF values.dtype = "object"
    THEN ObjArray([i \in 1..Len(values.data) |->
                     ElemOp(opn, values.data[i],
                            IF IsNdArray(other) THEN other.data[i] ELSE other)])
    ELSE ElemOp(opn, values, other)

\* the operand the operators read: other.values of a Dirichlet, else other
Operand(other) == IF other.k = "Dirichlet" THEN other.values ELSE other

__add__(self, other) == Wrap(ValuesOp("add", self.values, Operand(other)))
__radd__(self, other) == Wrap(ValuesOp("add", self.values, Operand(other)))
__sub__(self, other) == Wrap(ValuesOp("sub", self.values, Operand(other)))
__rsub__(self, other) == Wrap(ValuesOp("sub", self.values, Operand(other)))
__mul__(self, other) == Wrap(ValuesOp("mul", self.values, Operand(other)))
\* __rmul__ with the body of __radd__ pasted in
__rmul__Pasted(self, other) == Wrap(ValuesOp("add", self.values, Operand(other)))

__rmul__(self, other) == Wrap(ValuesOp("mul", self.values, Operand(other)))

(***************************************************************************)
(* The program state.  A numeric ndarray lives in the heap, so that two    *)
(* names can hold the same array; a store is [k, IS_AOA, values] with      *)
(* values a reference to its dense array, or its own object array of       *)
(* slots, each slot a reference or whatever else was assigned to it.       *)
(***************************************************************************)
VARIABLES
    heap,    \* address -> numeric ndarray, or None where nothing lives
    st,      \* the caller's names "a", "b", "r" -> a store, or None
    out,     \* what the last call returned when it is not bound to "r"
    err,     \* the exception the last call raised, or NoErr
    warned,  \* whether the last call emitted the zero warning
    op,      \* the last call: [name, recv, arg, flag]
    nset     \* how many indexed assignments the caller has made

vars == <<heap, st, out, err, warned, op, nset>>

\* the heap addresses: two slots for each name, and one for an array the
\* caller is about to assign
Addrs == 1..7
Names == {"a", "b", "r"}

Ref(n) == [k |-> "ref", at |-> n]
HStore(isAoa, values) == [k |-> "Dirichlet", IS_AOA |-> isAoa, values |-> values]
Call(name, recv, arg, flag) ==
    [name |-> name, recv |-> recv, arg |-> arg, flag |-> flag]

RefsOf(s) ==
    IF s = None THEN {}
    ELSE IF ~s.IS_AOA THEN {s.values.at}
    ELSE {s.values.data[i].at :
            i \in {j \in 1..Len(s.values.data) : s.values.data[j].k = "ref"}}

Used(stf, names) == UNION {RefsOf(stf[n]) : n \in names}

\* the n-th lowest address outside used
NthFree(used, n) ==
    CHOOSE ad \in Addrs \ used :
        Cardinality({x \in Addrs \ used : x < ad}) = n - 1

Deref(h, x) == IF x.k = "ref" THEN h[x.at] ELSE x

\* the contents of a store: its values with every reference followed
Contents(h, s) ==
    IF s = None THEN None
    ELSE [IS_AOA |-> s.IS_AOA,
          values |-> IF ~s.IS_AOA THEN h[s.values.at]
                     ELSE ObjArray([i \in 1..Len(s.values.data) |->
                                      Deref(h, s.values.data[i])])]

\* a newly built object [IS_AOA, values] put in the heap at addresses
\* outside used: [heap, store]
Place(h, used, self) ==
    IF ~self.IS_AOA
    THEN LET at == NthFree(used, 1)
         IN [heap |-> [h EXCEPT ![at] = self.values],
             store |-> HStore(FALSE, Ref(at))]
    ELSE LET els == self.values.data
             arrs == {i \in 1..Len(els) : IsNdArray(els[i])}
             addr(i) == NthFree(used, Cardinality({j \in arrs : j <= i}))
         IN [heap |-> [ad \in Addrs |->
                         IF \E i \in arrs : addr(i) = ad
                         THEN els[CHOOSE i \in arrs : addr(i) = ad]
                         ELSE h[ad]],
             store |-> HStore(TRUE, ObjArray([i \in 1..Len(els) |->
                          IF i \in arrs THEN Ref(addr(i)) ELSE els[i]]))]

\* arrays no name reaches any more are gone
Collect(h, stf) ==
    [ad \in Addrs |-> IF ad \in Used(stf, Names) THEN h[ad] ELSE None]

\* name := a newly built object: [heap, st]
Bind(h, stf, name, self) ==
    LET placed == Place(h, Used(stf, Names \ {name}), self)
        st2 == [stf EXCEPT ![name] = placed.store]
    IN [heap |-> Collect(placed.heap, st2), st |-> st2]

\* Dirichlet.remove_zeros on the store named x: [heap, st].  On a dense
\* store += works in place on the array; on an object array numpy applies
\* + slot by slot and stores each sum, a new array, in the slot.
remove_zeros(h, stf, x) ==
    IF ~stf[x].IS_AOA
    THEN [heap |-> [h EXCEPT ![stf[x].values.at] = AddEps(h[stf[x].values.at])],
          st |-> stf]
    ELSE Bind(h, stf, x, RemoveZerosContents(Contents(h, stf[x])))

RECURSIVE StripOnes(_)
\* a shape without its leading axes of size 1
StripOnes(shape) ==
    IF shape # <<>> /\ Head(shape) = 1 THEN StripOnes(Tail(shape)) ELSE shape

\* arr[idx] = src for a rank-2 float array: src is broadcast to the row
SetRow(arr, idx, src) ==
    LET c == NumCols(arr)
        ok == ~IsNdArray(src) \/ StripOnes(src.shape) \in {<<>>, <<c>>}
        cell(j) == IF ~IsNdArray(src) THEN src.v
                   ELSE IF StripOnes(src.shape) = <<>> THEN src.data[1]
                   ELSE src.data[j]
    IN [err |-> IF ok THEN NoErr ELSE "ValueError",
        arr |-> IF ~ok THEN arr
                ELSE [arr EXCEPT !.data =
                        [p \in 1..Len(arr.data) |->
                           IF (p - 1) \div c = idx THEN cell(((p - 1) % c) + 1)
                           ELSE arr.data[p]]]]

\* Dirichlet.__setitem__ on the store named x with an int idx (0-based):
\* [err, heap, st].  value is a store, a reference to a caller's array, or
\* a Python float.
setitem(h, stf, x, idx, value) ==
    LET v == IF value.k = "Dirichlet" THEN value.values ELSE value
        s == stf[x]
    IN IF s.IS_AOA
       THEN LET st2 == [stf EXCEPT ![x].values.data[idx + 1] = v]
            IN [err |-> NoErr, heap |-> Collect(h, st2), st |-> st2]
       ELSE LET res == SetRow(h[s.values.at], idx, Deref(h, v))
            IN [err |-> res.err,
                heap |-> Collect([h EXCEPT ![s.values.at] = res.arr], stf),
                st |-> stf]

(***************************************************************************)
(* The inputs                                                              *)
(***************************************************************************)
IntArray(shape, ints) ==
    NdArray("int64", shape, [i \in 1..Len(ints) |-> PInt(ints[i])])
FloatArray(shape, ints) ==
    NdArray("float64", shape, [i \in 1..Len(ints) |-> PInt(ints[i])])

\* the constructions the two stores start from: dense 2x2, and ragged with
\* slots (2,1) and (1,2)
StoreInits ==
    { [dims |-> None, values |-> IntArray(<<2, 2>>, <<0, 2, 4, 0>>)],
      [dims |-> None,
       values |-> ObjArray(<<IntArray(<<2>>, <<1, 0 - 1>>),
                             FloatArray(<<1, 2>>, <<0, 3>>)>>)] }

\* what the caller assigns with s[idx] = value, besides another store
SetValues ==
    { PyFloat(<<2>>),
      FloatArray(<<2>>, <<0, 1>>),
      IntArray(<<2, 1>>, <<1, 3>>) }

\* the scalar operand of the arithmetic operators
Scalars == { PyFloat(<<3>>) }

NameArg(n) == [k |-> "name", name |-> n]

(***************************************************************************)
(* The calls                                                               *)
(***************************************************************************)
Init ==
    \E ia \in StoreInits, ib \in StoreInits :
        LET h0 == [ad \in Addrs |-> None]
            s0 == [n \in Names |-> None]
            b1 == Bind(h0, s0, "a", DirichletInit(ia.dims, ia.values).self)
            b2 == Bind(b1.heap, b1.st, "b", DirichletInit(ib.dims, ib.values).self)
        IN /\ heap = b2.heap
           /\ st = b2.st
           /\ out = None
           /\ err = NoErr
           /\ warned = FALSE
           /\ op = Call("init", "a", None, FALSE)
           /\ nset = 0

\* what a call that returns a value leaves: the value in out, or, for a
\* new store the caller binds to r, the store in the heap
Returns(h, stf, res, toR) ==
    IF res.err = NoErr /\ toR
    THEN LET b == Bind(h, stf, "r", res.ret)
         IN heap' = b.heap /\ st' = b.st /\ out' = None /\ err' = NoErr
    ELSE heap' = h /\ st' = stf /\ out' = res.ret /\ err' = res.err

Normalize(x) ==
    /\ st[x] # None
    /\ Returns(heap, st, normalize(Contents(heap, st[x])), FALSE)
    /\ warned' = FALSE
    /\ op' = Call("normalize", x, None, FALSE)
    /\ UNCHANGED nset

Log(x, return_numpy) ==
    /\ st[x] # None
    /\ LET res == log(Contents(heap, st[x]), return_numpy)
           rz == IF res.warned THEN remove_zeros(heap, st, x)
                 ELSE [heap |-> heap, st |-> st]
       IN /\ Returns(rz.heap, rz.st, res, FALSE)
          /\ warned' = res.warned
    /\ op' = Call("log", x, None, return_numpy)
    /\ UNCHANGED nset

Wnorm(x, return_numpy) ==
    /\ st[x] # None
    /\ Returns(heap, st, wnorm(Contents(heap, st[x]), return_numpy), FALSE)
    /\ warned' = FALSE
    /\ op' = Call("wnorm", x, None, return_numpy)
    /\ UNCHANGED nset

Copy(x) ==
    /\ st[x] # None
    /\ Returns(heap, st, copy(Contents(heap, st[x])), TRUE)
    /\ warned' = FALSE
    /\ op' = Call("copy", x, None, FALSE)
    /\ UNCHANGED nset

NumSlots(s) == IF s.IS_AOA THEN Len(s.values.data) ELSE 0

\* the valid int indexes of the store s
Indexes(h, s) ==
    IF s.IS_AOA THEN 0..(Len(s.values.data) - 1)
    ELSE 0..(NumRows(h[s.values.at]) - 1)

GetItem(x, key) ==
    /\ st[x] # None
    /\ key \in Indexes(heap, st[x])
    /\ LET res == getitem(Contents(heap, st[x]), key)
       IN Returns(heap, st, res, "IS_AOA" \in DOMAIN res.ret)
    /\ warned' = FALSE
    /\ op' = Call("getitem", x, PyInt(key), FALSE)
    /\ UNCHANGED nset

ShapeOf(x) == IF IsNdArray(x) THEN x.shape ELSE <<>>

\* same representation and slot for slot the same shape
Matching(c, d) ==
    /\ c.IS_AOA = d.IS_AOA
    /\ IF c.IS_AOA
       THEN /\ Len(c.values.data) = Len(d.values.data)
            /\ \A i \in 1..Len(c.values.data) :
                 /\ IsNdArray(c.values.data[i]) = IsNdArray(d.values.data[i])
                 /\ ShapeOf(c.values.data[i]) = ShapeOf(d.values.data[i])
       ELSE c.values.shape = d.values.shape

Operators == {"add", "radd", "sub", "rsub", "mul", "rmul"}

Apply(opn, self, other) ==
    IF opn = "add" THEN __add__(self, other)
    ELSE IF opn = "radd" THEN __radd__(self, other)
    ELSE IF opn = "sub" THEN __sub__(self, other)
    ELSE IF opn = "rsub" THEN __rsub__(self, other)
    ELSE IF opn = "mul" THEN __mul__(self, other)
    ELSE __rmul__(self, other)

\* r = x OP y for two stores of matching shapes (Python calls the
\* non-reflected method when the left operand is a store)
ArithStore(x, opn, y) ==
    /\ st[x] # None /\ st[y] # None /\ x # y
    /\ opn \in {"add", "sub", "mul"}
    /\ LET c == Contents(heap, st[x])
           d == Contents(heap, st[y])
       IN /\ Matching(c, d)
          /\ Returns(heap, st,
                     Apply(opn, c, [k |-> "Dirichlet", values |-> d.values]), TRUE)
    /\ warned' = FALSE
    /\ op' = Call(opn, x, NameArg(y), FALSE)
    /\ UNCHANGED nset

\* r = x OP c, or r = c OP x (the reflected method), for a scalar c
ArithScalar(x, opn, c) ==
    /\ st[x] # None
    /\ Returns(heap, st, Apply(opn, Contents(heap, st[x]), c), TRUE)
    /\ warned' = FALSE
    /\ op' = Call(opn, x, c, FALSE)
    /\ UNCHANGED nset

RECURSIVE MaxOf(_)
MaxOf(S) == IF S = {} THEN 0
            ELSE LET m == CHOOSE v \in S : \A w \in S : w <= v IN m

\* how many times e has been added to the numbers x holds, at most
EpsOf(x) ==
    IF IsNdArray(x) THEN MaxOf({PCoef(x.data[p], 2) : p \in 1..Len(x.data)})
    ELSE PCoef(x.v, 2)

EpsLevel(c) ==
    IF c.IS_AOA THEN MaxOf({EpsOf(c.values.data[i]) : i \in 1..Len(c.values.data)})
    ELSE EpsOf(c.values)

RemoveZeros(x) ==
    /\ st[x] # None
    /\ EpsLevel(Contents(heap, st[x])) < MaxEps
    /\ LET rz == remove_zeros(heap, st, x)
       IN heap' = rz.heap /\ st' = rz.st
    /\ out' = None /\ err' = NoErr /\ warned' = FALSE
    /\ op' = Call("remove_zeros", x, None, FALSE)
    /\ UNCHANGED nset

\* x[idx] = y for a dense store y
SetItemStore(x, idx, y) ==
    /\ st[x] # None /\ st[y] # None /\ x # y
    /\ ~st[y].IS_AOA
    /\ nset < MaxSets
    /\ idx \in Indexes(heap, st[x])
    /\ LET res == setitem(heap, st, x, idx, st[y])
       IN heap' = res.heap /\ st' = res.st /\ err' = res.err
    /\ out' = None /\ warned' = FALSE
    /\ op' = Call("setitem", x, NameArg(y), FALSE)
    /\ nset' = nset + 1

\* x[idx] = v for a Python float or an array the caller has just built
SetItemValue(x, idx, v) ==
    /\ st[x] # None
    /\ nset < MaxSets
    /\ idx \in Indexes(heap, st[x])
    /\ LET at == NthFree(Used(st, Names), 1)
           h1 == IF IsNdArray(v) THEN [heap EXCEPT ![at] = v] ELSE heap
           res == setitem(h1, st, x, idx, IF IsNdArray(v) THEN Ref(at) ELSE v)
       IN heap' = res.heap /\ st' = res.st /\ err' = res.err
    /\ out' = None /\ warned' = FALSE
    /\ op' = Call("setitem", x, v, FALSE)
    /\ nset' = nset + 1

Next ==
    \/ Normalize("a")
    \/ \E rn \in BOOLEAN : Log("a", rn)
    \/ \E rn \in BOOLEAN : Wnorm("a", rn)
    \/ Copy("a")
    \/ \E key \in 0..1 : GetItem("a", key)
    \/ \E opn \in Operators : ArithStore("a", opn, "b")
    \/ \E opn \in Operators, c \in Scalars : ArithScalar("a", opn, c)
    \/ \E x \in {"a", "b"} : RemoveZeros(x)
    \/ \E idx \in 0..1 : SetItemStore("a", idx, "b")
    \/ \E x \in {"a", "b"}, idx \in 0..1, v \in SetValues : SetItemValue(x, idx, v)

Spec == Init /\ [][Next]_vars

(***************************************************************************)
(* The constructor alone: every call Dirichlet(dims=d, values=v) for d and *)
(* v drawn from the arguments below, as the first call of a program.  When *)
(* the call raises, the name is not bound, and out shows the object as the *)
(* raise left it.                                                          *)
(***************************************************************************)
Dim == 1..MaxDim

DimsArgs ==
    {None, PyTuple(<<PyInt(2)>>)}
    \cup {PyInt(n) : n \in 0..MaxDim}
    \cup {PyList(<<>>)}
    \cup UNION {{PyList([i \in 1..k |-> PyInt(f[i])]) : f \in [1..k -> Dim]} : k \in 1..3}
    \cup UNION {{PyList([i \in 1..k |-> PyList(<<PyInt(f[i][1])>>)]) :
                   f \in [1..k -> [1..1 -> Dim]]} : k \in 1..2}
    \cup {PyList(<<PyList(<<PyInt(d1)>>), PyList(<<PyInt(d2), PyInt(d3)>>)>>) :
            d1 \in Dim, d2 \in Dim, d3 \in Dim}
    \cup {PyList(<<PyList(<<PyInt(d1), PyInt(d2)>>), PyInt(d3)>>) :
            d1 \in Dim, d2 \in Dim, d3 \in Dim}
    \cup {PyList(<<PyInt(d1), PyList(<<PyInt(d2)>>)>>) : d1 \in Dim, d2 \in Dim}

ValuesArgs ==
    { None,
      PyList(<<PyInt(1)>>),
      IntArray(<<2>>, <<1, 2>>),
      FloatArray(<<2, 2>>, <<0, 2, 4, 0>>),
      ObjArray(<<IntArray(<<2>>, <<1, 0>>), FloatArray(<<1, 2>>, <<0, 3>>)>>) }

Blank ==
    /\ heap = [ad \in Addrs |-> None]
    /\ st = [n \in Names |-> None]
    /\ out = None
    /\ err = NoErr
    /\ warned = FALSE
    /\ nset = 0

InitCtor == Blank /\ op = Call("none", "r", None, FALSE)

Construct(dims, values) ==
    /\ op.name = "none"
    /\ LET res == DirichletInit(dims, values)
       IN IF res.err = NoErr
          THEN LET b == Bind(heap, st, "r", res.self)
               IN heap' = b.heap /\ st' = b.st /\ out' = None
          ELSE /\ UNCHANGED <<heap, st>>
               /\ out' = [k |-> "self", IS_AOA |-> res.self.IS_AOA,
                          values |-> res.self.values]
    /\ err' = DirichletInit(dims, values).err
    /\ warned' = FALSE
    /\ op' = Call("init", "r", [k |-> "args", dims |-> dims, values |-> values], FALSE)
    /\ UNCHANGED nset

NextCtor == \E dims \in DimsArgs, values \in ValuesArgs : Construct(dims, values)

SpecCtor == InitCtor /\ [][NextCtor]_vars

(***************************************************************************)
(* normalize, log and wnorm on their own: the store a is built from every  *)
(* array below, dense 2x2 or ragged with slots (2,) and (1,2), and the     *)
(* three methods are called on it.                                         *)
(***************************************************************************)
Vals == (0 - 1)..MaxVal

PureInits ==
    {FloatArray(<<2, 2>>, f) : f \in [1..4 -> Vals]}
    \cup {ObjArray(<<IntArray(<<2>>, f), FloatArray(<<1, 2>>, g)>>) :
            f \in [1..2 -> Vals], g \in [1..2 -> Vals]}

InitPure ==
    \E values \in PureInits :
        LET h0 == [ad \in Addrs |-> None]
            s0 == [n \in Names |-> None]
            b1 == Bind(h0, s0, "a", DirichletInit(None, values).self)
        IN /\ heap = b1.heap
           /\ st = b1.st
           /\ out = None
           /\ err = NoErr
           /\ warned = FALSE
           /\ op = Call("init", "a", None, FALSE)
           /\ nset = 0

NextPure ==
    \/ Normalize("a")
    \/ \E rn \in BOOLEAN : Log("a", rn)
    \/ \E rn \in BOOLEAN : Wnorm("a", rn)

SpecPure == InitPure /\ [][NextPure]_vars

(***************************************************************************)
(* The arithmetic operators and what may follow them: the result is bound  *)
(* to r, and the caller goes on to change r in place, or to floor a.       *)
(***************************************************************************)
NextArith ==
    \/ \E opn \in Operators : ArithStore("a", opn, "b")
    \/ \E opn \in Operators, c \in Scalars : ArithScalar("a", opn, c)
    \/ \E x \in {"a", "r"} : RemoveZeros(x)
    \/ \E idx \in 0..1 : SetItemStore("r", idx, "b")
    \/ \E idx \in 0..1, v \in SetValues : SetItemValue("r", idx, v)

SpecArith == Init /\ [][NextArith]_vars

(***************************************************************************)
(* The claims                                                              *)
(***************************************************************************)
\* the all-zero float array of a shape, written out
ZerosOfShape(shape) ==
    [k |-> "ndarray", dtype |-> "float64", shape |-> shape,
     data |-> [i \in 1..Prod(shape) |-> <<>>]]

DenseOf(arr) == [IS_AOA |-> FALSE, values |-> arr]

\* C5: the constructor accepts at most one of dims and values: with both
\* given it raises ValueError with no values stored and no store bound, and
\* with neither it gives the dense store of shape (1,1) holding 0.
C5_ConstructorArguments ==
    op.name = "init" =>
        LET d == op.arg.dims
            v == op.arg.values
        IN /\ (d # None /\ v # None) =>
                 /\ err = "ValueError"
                 /\ out = [k |-> "self", IS_AOA |-> FALSE, values |-> Unset]
                 /\ st["r"] = None
           /\ (d = None /\ v = None) =>
                 /\ err = NoErr
                 /\ Contents(heap, st["r"]) = DenseOf(ZerosOfShape(<<1, 1>>))

\* C5's case: a call with both an int list and an array was made and raised
C5_Witness ==
    /\ op.name = "init"
    /\ op.arg.dims = PyList(<<PyInt(2), PyInt(2)>>)
    /\ op.arg.values = FloatArray(<<2, 2>>, <<0, 2, 4, 0>>)
    /\ err = "ValueError"

\* the shape the flat-list rule gives a list of ints: (d1, 1) for [d1],
\* (d1, ..., dk) for k > 1
FlatRule(lst) ==
    IF Len(lst.els) = 1 THEN <<lst.els[1].n, 1>>
    ELSE [i \in 1..Len(lst.els) |-> lst.els[i].n]

\* C6: construction from dims gives zeros of these shapes: an int n gives
\* dense (n,1); a flat list of k >= 1 ints gives dense by the flat-list rule;
\* a list of lists gives a ragged store with one array per inner list, each
\* by the flat-list rule; a list mixing lists and ints, and a dims that is
\* neither an int nor a list, raise.
C6_ShapesFromDims ==
    (op.name = "init" /\ op.arg.values = None /\ op.arg.dims # None) =>
        LET d == op.arg.dims
            c == Contents(heap, st["r"])
            n == Len(d.els)
            lists == {i \in 1..n : d.els[i].k = "list"}
        IN IF d.k = "int"
           THEN err = NoErr /\ c = DenseOf(ZerosOfShape(<<d.n, 1>>))
           ELSE IF d.k # "list"
           THEN err # NoErr /\ st["r"] = None
           ELSE IF n = 0 THEN TRUE
           ELSE IF lists = {}
           THEN err = NoErr /\ c = DenseOf(ZerosOfShape(FlatRule(d)))
           ELSE IF lists = 1..n
           THEN /\ err = NoErr
                /\ c.IS_AOA
                /\ c.values.dtype = "object"
                /\ Len(c.values.data) = n
                /\ \A i \in 1..n : c.values.data[i] = ZerosOfShape(FlatRule(d.els[i]))
           ELSE err # NoErr /\ st["r"] = None

\* C6's case: dims [[2], [1, 2]] gave a ragged store of shapes (2,1), (1,2)
C6_Witness ==
    /\ op.name = "init"
    /\ op.arg.dims = PyList(<<PyList(<<PyInt(2)>>), PyList(<<PyInt(1), PyInt(2)>>)>>)
    /\ st["r"] # None
    /\ st["r"].IS_AOA
    /\ heap[st["r"].values.data[1].at].shape = <<2, 1>>
    /\ heap[st["r"].values.data[2].at].shape = <<1, 2>>


\* the arrays of a values container, and of a returned raw container or store
ArraysOfValues(v) == IF v.dtype = "object" THEN v.data ELSE <<v>>
ArraysOf(c) == ArraysOfValues(c.values)
OutArrays(o) == IF "IS_AOA" \in DOMAIN o THEN ArraysOfValues(o.values)
                ELSE ArraysOfValues(o)

AllTensors(c) == \A k \in 1..Len(ArraysOf(c)) : IsNdArray(ArraysOf(c)[k])
AllFinite(o) ==
    \A k \in 1..Len(OutArrays(o)) :
        \A p \in 1..Len(OutArrays(o)[k].data) : IsFinite(OutArrays(o)[k].data[p])
HasZeroEntry(c) ==
    \E k \in 1..Len(ArraysOf(c)) :
        \E p \in 1..Len(ArraysOf(c)[k].data) : ArraysOf(c)[k].data[p] = <<>>
NonNegative(c) ==
    \A k \in 1..Len(ArraysOf(c)) :
        \A p \in 1..Len(ArraysOf(c)[k].data) : PSign(ArraysOf(c)[k].data[p]) >= 0

RECURSIVE NumSumSeq(_)
NumSumSeq(xs) == IF xs = <<>> THEN Exact(<<>>) ELSE NumAdd(Head(xs), NumSumSeq(Tail(xs)))

\* C2: after normalize() every column of every returned array is finite and
\* sums to 1; a column whose sum s is not 0 is the stored column divided by
\* s, and a column whose sum is 0 is 1/num_rows throughout.
C2_NormalizeColumns ==
    op.name = "normalize" =>
        /\ err = NoErr
        /\ LET A == ArraysOf(Contents(heap, st[op.recv]))
               N == OutArrays(out)
           IN \A k \in 1..Len(A) : \A j \in 1..NumCols(A[k]) :
                LET s == PSumSeq(Column(A[k], j))
                    rows == NumRows(A[k])
                IN /\ \A i \in 1..rows : IsFinite(At(N[k], i, j))
                   /\ NumEq(NumSumSeq(Column(N[k], j)), Exact(<<1>>))
                   /\ \A i \in 1..rows :
                        NumEq(At(N[k], i, j),
                              IF s # <<>> THEN Quot(At(A[k], i, j), s)
                              ELSE Quot(<<1>>, <<rows>>))

\* C3 as claimed: log() on a store holding a 0, its other entries free,
\* raises nothing, warns, returns finite values only, and returns what
\* log() returns on an equal store that remove_zeros() was first called on.
C3_LogOnZeros ==
    [][(op'.name = "log" /\ HasZeroEntry(Contents(heap, st[op'.recv]))) =>
          /\ err' = NoErr
          /\ warned'
          /\ AllFinite(out')
          /\ out' = log(RemoveZerosContents(Contents(heap, st[op'.recv])),
                        op'.flag).ret]_vars

\* C3 amended: the same for a store whose slots are all arrays and whose
\* entries are all non-negative.
C3_LogOnZerosNonNegative ==
    [][(/\ op'.name = "log"
        /\ AllTensors(Contents(heap, st[op'.recv]))
        /\ NonNegative(Contents(heap, st[op'.recv]))
        /\ HasZeroEntry(Contents(heap, st[op'.recv]))) =>
          /\ err' = NoErr
          /\ warned'
          /\ AllFinite(out')
          /\ out' = log(RemoveZerosContents(Contents(heap, st[op'.recv])),
                        op'.flag).ret]_vars

\* C3's case: log() warned and returned log(e) for a stored 0 and log(1+e)
\* for a stored 1 (the scenario of the specification)
C3_Witness ==
    /\ op.name = "log"
    /\ warned
    /\ err = NoErr
    /\ AllFinite(out)
    /\ \E k \in 1..Len(OutArrays(out)) :
         /\ \E p \in 1..Len(OutArrays(out)[k].data) :
              OutArrays(out)[k].data[p] = [t |-> "log", x |-> <<0, 1>>]
         /\ \E p \in 1..Len(OutArrays(out)[k].data) :
              OutArrays(out)[k].data[p] = [t |-> "log", x |-> <<1, 1>>]

\* C4 as claimed: wnorm() returns 1/s_j - 1/A[i,j] at every strictly
\* positive entry of every stored array A, s_j the sum of column j of the
\* stored values.
C4_WnormFromStored ==
    [][op'.name = "wnorm" =>
          /\ err' = NoErr
          /\ LET A == ArraysOf(Contents(heap, st[op'.recv]))
                 W == OutArrays(out')
             IN \A k \in 1..Len(A) : \A i \in 1..NumRows(A[k]) :
                  \A j \in 1..NumCols(A[k]) :
                    PSign(At(A[k], i, j)) > 0 =>
                      NumEq(At(W[k], i, j),
                            NumSub(Divide(<<1>>, PSumSeq(Column(A[k], j))),
                                   Divide(<<1>>, At(A[k], i, j))))]_vars

\* C4 amended: on a store whose slots are all arrays, wnorm() returns
\* 1/s'_j - 1/A'[i,j] at every strictly positive entry, where A' is the
\* stored array with e = exp(-16) added to every entry and s'_j the sum of
\* column j of A' (the stored sum plus num_rows * e); the store is unchanged.
C4_WnormFromRepaired ==
    [][(op'.name = "wnorm" /\ AllTensors(Contents(heap, st[op'.recv]))) =>
          /\ err' = NoErr
          /\ Contents(heap', st'[op'.recv]) = Contents(heap, st[op'.recv])
          /\ LET A == ArraysOf(Contents(heap, st[op'.recv]))
                 W == OutArrays(out')
             IN \A k \in 1..Len(A) : \A i \in 1..NumRows(A[k]) :
                  \A j \in 1..NumCols(A[k]) :
                    PSign(At(A[k], i, j)) > 0 =>
                      NumEq(At(W[k], i, j),
                            NumSub(
                              Quot(<<1>>, PAdd(PSumSeq(Column(A[k], j)),
                                               <<0, NumRows(A[k])>>)),
                              Quot(<<1>>, PAdd(At(A[k], i, j), <<0, 1>>))))]_vars

\* C4's case: wnorm() was called on the dense store [[1,1],[1,0]] and
\* returned 1/(2+2e) - 1/(1+e) at [0,0]
C4_Witness ==
    /\ op.name = "wnorm"
    /\ err = NoErr
    /\ ~st["a"].IS_AOA
    /\ heap[st["a"].values.at].data = << <<1>>, <<1>>, <<1>>, <<>> >>
    /\ NumEq(OutArrays(out)[1].data[1],
             NumSub(Quot(<<1>>, <<2, 2>>), Quot(<<1>>, <<1, 1>>)))


\* the numbers x OP y, written out
Expected(opn, x, y) ==
    IF opn \in {"add", "radd"} THEN PAdd(x, y)
    ELSE IF opn \in {"mul", "rmul"} THEN PMul(x, y)
    ELSE PSub(x, y)

\* the number the other operand contributes at entry p of array k
OtherAt(h, stf, arg, k, p) ==
    IF arg.k = "name" THEN ArraysOf(Contents(h, stf[arg.name]))[k].data[p]
    ELSE arg.v

\* C7: a+b, a-b, a*b (b a store of matching shapes, or a scalar) and the
\* reflected b+a, b*a with b a scalar bind a new store whose entries are
\* a's entries OP b's, sharing no array with a or b, and leave a and b as
\* they were; changing the result in place afterwards (remove_zeros,
\* indexed assignment) leaves a and b as they were.  a and b are stores
\* whose slots are all arrays.
C7_ArithmeticPure ==
    [][/\ (/\ op'.name \in Operators \ {"rsub"}
           /\ AllTensors(Contents(heap, st[op'.recv]))
           /\ (op'.arg.k = "name" => AllTensors(Contents(heap, st[op'.arg.name])))) =>
             /\ err' = NoErr
             /\ Contents(heap', st'["a"]) = Contents(heap, st["a"])
             /\ Contents(heap', st'["b"]) = Contents(heap, st["b"])
             /\ RefsOf(st'["r"]) \cap (RefsOf(st'["a"]) \cup RefsOf(st'["b"])) = {}
             /\ st'["r"].IS_AOA = st[op'.recv].IS_AOA
             /\ LET A == ArraysOf(Contents(heap, st[op'.recv]))
                    R == ArraysOf(Contents(heap', st'["r"]))
                IN /\ Len(R) = Len(A)
                   /\ \A k \in 1..Len(A) :
                        /\ Len(R[k].data) = Len(A[k].data)
                        /\ \A p \in 1..Len(A[k].data) :
                             R[k].data[p] =
                               Expected(op'.name, A[k].data[p],
                                        OtherAt(heap, st, op'.arg, k, p))
       /\ (op'.name \in {"remove_zeros", "setitem"} /\ op'.recv = "r") =>
             /\ Contents(heap', st'["a"]) = Contents(heap, st["a"])
             /\ Contents(heap', st'["b"]) = Contents(heap, st["b"])]_vars

\* C7's case: r = a * b was computed for two ragged stores, and r holds the
\* products (1, 1) of the first slots (1, -1)
C7_Witness ==
    /\ op.name = "mul"
    /\ op.arg = NameArg("b")
    /\ err = NoErr
    /\ st["r"] # None
    /\ st["r"].IS_AOA
    /\ Contents(heap, st["a"]).values.data[1].data = << <<1>>, <<0 - 1>> >>
    /\ Contents(heap, st["r"]).values.data[1].data = << <<1>>, <<1>> >>

\* C1: none of normalize, log, wnorm, copy, +, -, * (and the reflected
\* forms) changes the store it is called on.
C1_ReceiverUnchanged ==
    [][op'.name \in {"normalize", "log", "wnorm", "copy"} \cup Operators =>
          Contents(heap', st'[op'.recv]) = Contents(heap, st[op'.recv])]_vars

\* a store's representation invariant: every slot is a float array of rank
\* at least 2
DataModel(h, s) ==
    s = None \/
    \A k \in 1..Len(ArraysOf(Contents(h, s))) :
        LET x == ArraysOf(Contents(h, s))[k]
        IN IsNdArray(x) /\ x.dtype = "float64" /\ Ndim(x) >= 2

\* C8: no call changes the representation tag of a store, and after every
\* call every slot of every store is a float array of rank at least 2.
C8_DataModelKept ==
    [][/\ \A n \in {"a", "b"} : st'[n].IS_AOA = st[n].IS_AOA
       /\ \A n \in Names : DataModel(heap', st'[n])]_vars

\* C9: changing one store in place (remove_zeros, indexed assignment)
\* changes no other store.
C9_NoSharedStorage ==
    [][op'.name \in {"remove_zeros", "setitem"} =>
          \A n \in Names \ {op'.recv} :
              Contents(heap', st'[n]) = Contents(heap, st[n])]_vars

\* C10: c - s for a scalar c binds a store whose entries are c minus the
\* entries of s.
C10_ReflectedSubtraction ==
    [][(op'.name = "rsub" /\ AllTensors(Contents(heap, st[op'.recv]))) =>
          /\ err' = NoErr
          /\ LET A == ArraysOf(Contents(heap, st[op'.recv]))
                 R == ArraysOf(Contents(heap', st'["r"]))
             IN \A k \in 1..Len(A) : \A p \in 1..Len(A[k].data) :
                  R[k].data[p] = PSub(op'.arg.v, A[k].data[p])]_vars

====
